---- MODULE Spec2Model ----
(***************************************************************************)
(* bevy_app_compute: the compute worker (src/src/worker.rs), its builder   *)
(* (src/src/worker_builder.rs) and the per-frame schedule installed by the *)
(* plugin (src/src/plugin.rs), as a state machine.                         *)
(*                                                                         *)
(* One frame is: the Update stage (user systems and extract_pipelines),    *)
(* then PostUpdate's chain unmap_all -> run.  The device is abstracted to  *)
(* "is submitted work still in flight" (gpu_busy) and to the content of    *)
(* every allocation.  Queue order is program order, so the effect of a     *)
(* submitted command stream on the contents is computed at submit; the     *)
(* host only sees it through a staging buffer once the work has completed. *)
(***************************************************************************)
EXTENDS Integers, Sequences, FiniteSets, TLC

VARIABLES
    state,              \* AppComputeWorker.state
    run_mode,           \* AppComputeWorker.run_mode
    wait_mode,          \* AppComputeWorker.wait_mode
    cached_pipeline_ids,\* AppComputeWorker.cached_pipeline_ids
    pipelines,          \* AppComputeWorker.pipelines (FALSE = None, TRUE = Some)
    buffers,            \* AppComputeWorker.buffers
    staging_buffers,    \* AppComputeWorker.staging_buffers
    steps,              \* AppComputeWorker.steps
    command_encoder,    \* AppComputeWorker.command_encoder
    pipeline_cache,     \* AppPipelineCache: the shaders whose pipeline is compiled
    gpu_busy,           \* device: submitted work has not completed yet
    next_id,            \* device: the next allocation handle
    destroyed,          \* device: the allocations destroy() was called on
    queued,             \* PipelineCache: the compilations requested so far
    pc,                 \* scheduler: the stage the frame is in
    fatal,              \* "none", or the panic that ended the process
    cycle_log,          \* history: step indices processed since the last submit
    submitted,          \* history: what the last submit handed to the queue
    n_exec,             \* history: OneShot execute() calls since the last completion
    n_submits,          \* history: submits since the last completion
    copy_mapped,        \* history: a copy was recorded into a mapped staging buffer
    maps,               \* history: the map requests since the last submit
    other,              \* a second worker on the same device, as a record
    wlog,               \* history: per name, the last write() and what followed it
    outcome             \* history: how the last run_aux / execute_now ended

vars == <<state, run_mode, wait_mode, cached_pipeline_ids, pipelines, buffers,
          staging_buffers, steps, command_encoder, pipeline_cache, gpu_busy,
          next_id, destroyed, queued, pc, fatal, cycle_log, submitted, n_exec,
          n_submits, copy_mapped, maps, other, wlog, outcome>>

(***************************************************************************)
(* Bounds of the model.                                                    *)
(***************************************************************************)
\* Step records an aborted run may leave behind before the next submit.
MaxStale == 1
\* Allocation handles the device gives out (the declaration takes the first ones,
\* a runtime add_staging takes two more).
MaxIds == 7
\* OneShot execute() calls counted between two completions.
MaxExec == 2
\* Steps a builder is given.
MaxSteps == 3

(***************************************************************************)
(* Values.                                                                 *)
(***************************************************************************)
Names == {"A", "B", "U"}
Shaders == {"S1", "S2"}
\* [1, 1, 1] and [4, 1, 1] of examples/change_dispatch_size.rs
Sizes == {1, 4}
WriteVals == {"v1", "v2"}

Continuous == [mode |-> "Continuous", trig |-> FALSE]
OneShot(b) == [mode |-> "OneShot", trig |-> b]
Immediate == [mode |-> "Immediate", trig |-> FALSE]

ComputePass(s, size, vs) ==
    [kind |-> "ComputePass", shader_type_path |-> s, dispatch_size |-> size,
     vars |-> vs, a |-> "-", b |-> "-"]
Swap(x, y) ==
    [kind |-> "Swap", shader_type_path |-> "-", dispatch_size |-> 0,
     vars |-> <<>>, a |-> x, b |-> y]

Range(f) == {f[x] : x \in DOMAIN f}
Put(f, k, v) == [x \in DOMAIN f \cup {k} |-> IF x = k THEN v ELSE f[x]]
EmptyMap == [x \in {} |-> 0]
NoEncoder == [some |-> FALSE, cmds |-> <<>>]
FreshEncoder == [some |-> TRUE, cmds |-> <<>>]
\* No map request yet: log holds the names asked for since the last submit,
\* again says that some request was made on a buffer already marked mapped.
NoMaps == [log |-> <<>>, again |-> FALSE]
NoWrite == [v |-> "-", sub |-> FALSE, fin |-> FALSE, finsub |-> FALSE]

(***************************************************************************)
(* The builder (worker_builder.rs).                                        *)
(***************************************************************************)
BuilderNew ==
    [cached_pipeline_ids |-> EmptyMap, buffers |-> EmptyMap,
     staging_buffers |-> EmptyMap, steps |-> <<>>, run_mode |-> Continuous,
     wait_mode |-> TRUE, next_id |-> 1, queued |-> 0]

\* The size of the buffer created for a value: the value a user system gives
\* add_staging at run time is one element longer than the declared one.
ByteSize(v) == IF v = "new" THEN 2 ELSE 1

builder_add_uniform(b, name, v) ==
    [b EXCEPT !.buffers = Put(@, name, [id |-> b.next_id, kind |-> "uniform", data |-> v,
                                         size |-> ByteSize(v)]),
              !.next_id = @ + 1]

builder_add_rw_storage(b, name, v) ==
    [b EXCEPT !.buffers = Put(@, name, [id |-> b.next_id, kind |-> "rw", data |-> v,
                                         size |-> ByteSize(v)]),
              !.next_id = @ + 1]

\* The staging buffer is created mapped (mapped_at_creation): its content is
\* zeroes, not the data.
builder_add_staging(b, name, v) ==
    LET b1 == builder_add_rw_storage(b, name, v)
    IN [b1 EXCEPT !.staging_buffers =
                      Put(@, name, [mapped |-> TRUE, id |-> b1.next_id, data |-> "zero",
                                    size |-> b1.buffers[name].size]),
                  !.next_id = @ + 1]

\* add_pass without the contains_key test: every pass queues a compilation.
builder_add_pass_requeue(b, s, size, vs) ==
    [b EXCEPT !.cached_pipeline_ids = Put(@, s, b.queued),
              !.queued = @ + 1,
              !.steps = Append(@, ComputePass(s, size, vs))]

\* fn add_pass<S>(&mut self, dispatch_size, vars): queue_compute_pipeline gives
\* the next id of the PipelineCache.
builder_add_pass(b, s, size, vs) ==
    LET b1 == IF s \in DOMAIN b.cached_pipeline_ids
              THEN b
              ELSE [b EXCEPT !.cached_pipeline_ids = Put(@, s, b.queued),
                             !.queued = @ + 1]
    IN [b1 EXCEPT !.steps = Append(@, ComputePass(s, size, vs))]

builder_add_swap(b, x, y) == [b EXCEPT !.steps = Append(@, Swap(x, y))]

builder_set_wait_mode(b, wait) == [b EXCEPT !.wait_mode = wait]
builder_continuous(b) == [b EXCEPT !.run_mode = Continuous]
builder_one_shot(b) == [b EXCEPT !.run_mode = OneShot(FALSE)]
builder_immediate(b) == [b EXCEPT !.run_mode = Immediate]

\* examples/multi_pass.rs: two chained passes; B is staged and touched by no step.
DeclMultiPass ==
    builder_add_pass(
      builder_add_pass(
        builder_add_staging(
          builder_add_staging(
            builder_add_uniform(BuilderNew, "U", "init"), "A", "init"), "B", "init"),
        "S1", 4, <<"U", "A">>),
      "S2", 4, <<"A">>)

\* examples/boids.rs: one pass over both buffers, then the swap.
DeclBoids ==
    builder_add_swap(
      builder_add_pass(
        builder_add_staging(
          builder_add_staging(
            builder_add_uniform(BuilderNew, "U", "init"), "A", "init"), "B", "init"),
        "S1", 4, <<"U", "A", "B">>),
      "A", "B")

\* A swap declared before the pass that reads the swapped buffer.
DeclSwapFirst ==
    builder_add_pass(
      builder_add_swap(
        builder_add_staging(
          builder_add_staging(BuilderNew, "A", "init"), "B", "init"),
        "A", "B"),
      "S1", 1, <<"A">>)

Declarations == {DeclMultiPass, DeclBoids, DeclSwapFirst}

RunModeCalls(b) == {builder_continuous(b), builder_one_shot(b), builder_immediate(b)}
WaitModeCalls(b) == {b, builder_set_wait_mode(b, FALSE)}

Builders == UNION {UNION {WaitModeCalls(m) : m \in RunModeCalls(d)} : d \in Declarations}

(***************************************************************************)
(* The worker as a record, so that the methods of worker.rs are functions  *)
(* from worker to worker and compose like the calls in the source.         *)
(***************************************************************************)
Self ==
    [state |-> state, run_mode |-> run_mode, wait_mode |-> wait_mode,
     cached_pipeline_ids |-> cached_pipeline_ids, pipelines |-> pipelines,
     buffers |-> buffers, staging_buffers |-> staging_buffers, steps |-> steps,
     command_encoder |-> command_encoder, gpu_busy |-> gpu_busy,
     next_id |-> next_id, destroyed |-> destroyed, queued |-> queued,
     fatal |-> fatal, cycle_log |-> cycle_log,
     submitted |-> submitted, n_exec |-> n_exec, n_submits |-> n_submits,
     copy_mapped |-> copy_mapped, maps |-> maps, wlog |-> wlog,
     outcome |-> outcome]

CommitSelf(w) ==
    /\ state' = w.state
    /\ run_mode' = w.run_mode
    /\ wait_mode' = w.wait_mode
    /\ cached_pipeline_ids' = w.cached_pipeline_ids
    /\ pipelines' = w.pipelines
    /\ buffers' = w.buffers
    /\ staging_buffers' = w.staging_buffers
    /\ steps' = w.steps
    /\ command_encoder' = w.command_encoder
    /\ gpu_busy' = w.gpu_busy
    /\ next_id' = w.next_id
    /\ destroyed' = w.destroyed
    /\ queued' = w.queued
    /\ fatal' = w.fatal
    /\ cycle_log' = w.cycle_log
    /\ submitted' = w.submitted
    /\ n_exec' = w.n_exec
    /\ n_submits' = w.n_submits
    /\ copy_mapped' = w.copy_mapped
    /\ maps' = w.maps
    /\ wlog' = w.wlog
    /\ outcome' = w.outcome

\* The worker becomes w; a second worker is left alone.
Commit(w) == CommitSelf(w) /\ other' = other

\* The worker is w.
Holds(w) ==
    /\ state = w.state
    /\ run_mode = w.run_mode
    /\ wait_mode = w.wait_mode
    /\ cached_pipeline_ids = w.cached_pipeline_ids
    /\ pipelines = w.pipelines
    /\ buffers = w.buffers
    /\ staging_buffers = w.staging_buffers
    /\ steps = w.steps
    /\ command_encoder = w.command_encoder
    /\ gpu_busy = w.gpu_busy
    /\ next_id = w.next_id
    /\ destroyed = w.destroyed
    /\ queued = w.queued
    /\ fatal = w.fatal
    /\ cycle_log = w.cycle_log
    /\ submitted = w.submitted
    /\ n_exec = w.n_exec
    /\ n_submits = w.n_submits
    /\ copy_mapped = w.copy_mapped
    /\ maps = w.maps
    /\ wlog = w.wlog
    /\ outcome = w.outcome

\* From that starts with an empty pipeline table.
From_without_pipeline_table(b) ==
    [state |-> "Created", run_mode |-> b.run_mode, wait_mode |-> b.wait_mode,
     cached_pipeline_ids |-> b.cached_pipeline_ids,
     pipelines |-> EmptyMap,
     buffers |-> b.buffers, staging_buffers |-> b.staging_buffers,
     steps |-> b.steps, command_encoder |-> FreshEncoder, gpu_busy |-> FALSE,
     next_id |-> b.next_id, destroyed |-> {}, queued |-> b.queued,
     fatal |-> "none", cycle_log |-> <<>>,
     submitted |-> [any |-> FALSE, log |-> <<>>, cmds |-> <<>>],
     n_exec |-> 0, n_submits |-> 0, copy_mapped |-> FALSE, maps |-> NoMaps,
     wlog |-> [n \in Names |-> NoWrite], outcome |-> "none"]

\* impl From<&AppComputeWorkerBuilder> for AppComputeWorker
From(b) ==
    [state |-> "Created", run_mode |-> b.run_mode, wait_mode |-> b.wait_mode,
     cached_pipeline_ids |-> b.cached_pipeline_ids,
     pipelines |-> [s \in DOMAIN b.cached_pipeline_ids |-> FALSE],
     buffers |-> b.buffers, staging_buffers |-> b.staging_buffers,
     steps |-> b.steps, command_encoder |-> FreshEncoder, gpu_busy |-> FALSE,
     next_id |-> b.next_id, destroyed |-> {}, queued |-> b.queued,
     fatal |-> "none", cycle_log |-> <<>>,
     submitted |-> [any |-> FALSE, log |-> <<>>, cmds |-> <<>>],
     n_exec |-> 0, n_submits |-> 0, copy_mapped |-> FALSE, maps |-> NoMaps,
     wlog |-> [n \in Names |-> NoWrite], outcome |-> "none"]

\* No second worker: the resource of an empty declaration, which never acts.
Alone == From(BuilderNew)

Ok(w) == [err |-> "Ok", w |-> w]
Err(e, w) == [err |-> e, w |-> w]
Panic(e, w) == [w EXCEPT !.fatal = e, !.outcome = "Panic"]

DispatchCmd(s, entries, size) ==
    [op |-> "dispatch", pipeline |-> s, entries |-> entries, size |-> size,
     src |-> 0, dst |-> 0]
CopyCmd(src, dst, size) ==
    [op |-> "copy", pipeline |-> "-", entries |-> <<>>, size |-> size,
     src |-> src, dst |-> dst]

\* Sequencing: e is evaluated, then F is applied to its value (one statement
\* after another; with a test of the value's err, the ? operator).
AndThen(e, F(_)) == CHOOSE r \in {F(x) : x \in {e}} : TRUE

Record(w, cmd) == [w EXCEPT !.command_encoder.cmds = Append(@, cmd)]

\* dispatch that looks for the pipeline before it looks for the buffers.
dispatch_pipeline_first(w, index) ==
    LET compute_pass == w.steps[index]
        vs == compute_pass.vars
        entries == [i \in DOMAIN vs |-> w.buffers[vs[i]].id]
    IN IF compute_pass.kind = "Swap" THEN Err("InvalidStep", w)
       ELSE IF compute_pass.shader_type_path \notin DOMAIN w.pipelines
            THEN Err("PipelinesEmpty", w)
       ELSE IF ~w.pipelines[compute_pass.shader_type_path]
            THEN Err("PipelineNotReady", w)
       ELSE IF \E i \in DOMAIN vs : vs[i] \notin DOMAIN w.buffers
            THEN Err("BufferNotFound", w)
       ELSE IF ~w.command_encoder.some THEN Err("EncoderIsNone", w)
       ELSE Ok([Record(w, DispatchCmd(compute_pass.shader_type_path, entries,
                                      compute_pass.dispatch_size))
                  EXCEPT !.cycle_log = Append(@, index)])

\* dispatch that binds the buffers in the reverse of the declared order.
dispatch_reversed_bindings(w, index) ==
    LET compute_pass == w.steps[index]
        vs == compute_pass.vars
        entries == [i \in DOMAIN vs |-> w.buffers[vs[Len(vs) + 1 - i]].id]
    IN IF compute_pass.kind = "Swap" THEN Err("InvalidStep", w)
       ELSE IF \E i \in DOMAIN vs : vs[i] \notin DOMAIN w.buffers
            THEN Err("BufferNotFound", w)
       ELSE IF compute_pass.shader_type_path \notin DOMAIN w.pipelines
            THEN Err("PipelinesEmpty", w)
       ELSE IF ~w.pipelines[compute_pass.shader_type_path]
            THEN Err("PipelineNotReady", w)
       ELSE IF ~w.command_encoder.some THEN Err("EncoderIsNone", w)
       ELSE Ok([Record(w, DispatchCmd(compute_pass.shader_type_path, entries,
                                      compute_pass.dispatch_size))
                  EXCEPT !.cycle_log = Append(@, index)])

\* fn dispatch(&mut self, index)
dispatch(w, index) ==
    LET compute_pass == w.steps[index]
        vs == compute_pass.vars
        entries == [i \in DOMAIN vs |-> w.buffers[vs[i]].id]
    IN IF compute_pass.kind = "Swap" THEN Err("InvalidStep", w)
       ELSE IF \E i \in DOMAIN vs : vs[i] \notin DOMAIN w.buffers
            THEN Err("BufferNotFound", w)
       ELSE IF compute_pass.shader_type_path \notin DOMAIN w.pipelines
            THEN Err("PipelinesEmpty", w)
       ELSE IF ~w.pipelines[compute_pass.shader_type_path]
            THEN Err("PipelineNotReady", w)
       ELSE IF ~w.command_encoder.some THEN Err("EncoderIsNone", w)
       ELSE Ok([Record(w, DispatchCmd(compute_pass.shader_type_path, entries,
                                      compute_pass.dispatch_size))
                  EXCEPT !.cycle_log = Append(@, index)])

\* The exchange of std::mem::swap on the two map values.
exchange(bufs, x, y) ==
    [n \in DOMAIN bufs |-> IF n = x THEN bufs[y] ELSE IF n = y THEN bufs[x] ELSE bufs[n]]

\* The body of swap on the two names of the step: get_many_mut gives None for
\* a duplicate key, and the unwrap panics.
swap_names(w, x, y) ==
    IF x \notin DOMAIN w.buffers THEN Err("BufferNotFound", w)
    ELSE IF y \notin DOMAIN w.buffers THEN Err("BufferNotFound", w)
    ELSE IF x = y THEN Err("UnwrapNone", w)
    ELSE Ok([w EXCEPT !.buffers = exchange(@, x, y)])

\* fn swap(&mut self, index)
swap(w, index) ==
    LET step == w.steps[index]
        r == swap_names(w, step.a, step.b)
    IN IF step.kind = "ComputePass" THEN Err("InvalidStep", w)
       ELSE IF r.err # "Ok" THEN r
       ELSE Ok([r.w EXCEPT !.cycle_log = Append(@, index)])

\* The loop over the steps of run_aux and run_immediate: it stops at the
\* first error and keeps what the earlier steps did.
RECURSIVE run_steps(_, _)
run_steps(w, i) ==
    IF i > Len(w.steps) THEN Ok(w)
    ELSE AndThen(IF w.steps[i].kind = "ComputePass" THEN dispatch(w, i) ELSE swap(w, i),
                 LAMBDA r : IF r.err # "Ok" THEN r ELSE run_steps(r.w, i + 1))

\* The staging names in the order the copies are recorded (the map's iteration
\* order; the copies have distinct destinations and commute).
NameOrder == <<"A", "B", "U">>
StagingOrder(w) == SelectSeq(NameOrder, LAMBDA n : n \in DOMAIN w.staging_buffers)

RECURSIVE read_from(_, _)
read_from(w, names) ==
    IF names = <<>> THEN Ok(w)
    ELSE LET name == Head(names)
         IN IF ~w.command_encoder.some THEN Err("EncoderIsNone", w)
            ELSE IF name \notin DOMAIN w.buffers THEN Err("BufferNotFound", w)
            ELSE AndThen(
                   [Record(w, CopyCmd(w.buffers[name].id, w.staging_buffers[name].id,
                                      w.staging_buffers[name].size))
                      EXCEPT !.copy_mapped = @ \/ w.staging_buffers[name].mapped],
                   LAMBDA w1 : read_from(w1, Tail(names)))

\* fn read_staging_buffers(&mut self)
read_staging_buffers(w) == read_from(w, StagingOrder(w))

\* fn map_staging_buffers(&mut self)
map_staging_buffers(w) ==
    [w EXCEPT !.staging_buffers =
                  [n \in DOMAIN @ |-> [@[n] EXCEPT !.mapped = TRUE]],
              !.maps = [log |-> @.log \o StagingOrder(w),
                        again |-> @.again \/ \E n \in DOMAIN w.staging_buffers :
                                                 w.staging_buffers[n].mapped]]

(***************************************************************************)
(* The device: what a command does to the contents.  A compute pass writes *)
(* its result to every read/write storage allocation it binds; a copy      *)
(* moves the source's content to the staging allocation.                   *)
(***************************************************************************)
DataOf(bufs, id, old) ==
    IF \E n \in DOMAIN bufs : bufs[n].id = id
    THEN (CHOOSE d \in {bufs[n].data : n \in {m \in DOMAIN bufs : bufs[m].id = id}} : TRUE)
    ELSE old

ExecCmd(w, c) ==
    IF c.op = "dispatch"
    THEN [w EXCEPT !.buffers =
             [n \in DOMAIN @ |->
                 IF @[n].id \in Range(c.entries) /\ @[n].kind = "rw"
                 THEN [@[n] EXCEPT !.data = "gpu"] ELSE @[n]]]
    ELSE [w EXCEPT !.staging_buffers =
             [n \in DOMAIN @ |->
                 IF @[n].id = c.dst
                 THEN [@[n] EXCEPT !.data = DataOf(w.buffers, c.src, @)] ELSE @[n]]]

RECURSIVE ExecAll(_, _)
ExecAll(w, cmds) ==
    IF cmds = <<>> THEN w
    ELSE AndThen(ExecCmd(w, Head(cmds)), LAMBDA w1 : ExecAll(w1, Tail(cmds)))

\* fn submit(&mut self)
submit(w) ==
    IF ~w.command_encoder.some THEN Panic("UnwrapNone", w)
    ELSE [ExecAll(w, w.command_encoder.cmds) EXCEPT
            !.command_encoder = NoEncoder,
            !.gpu_busy = TRUE,
            !.state = "Working",
            !.submitted = [any |-> TRUE, log |-> w.cycle_log,
                           cmds |-> w.command_encoder.cmds],
            !.cycle_log = <<>>,
            !.maps = [@ EXCEPT !.log = <<>>],
            !.n_submits = IF w.run_mode.mode = "OneShot" THEN @ + 1 ELSE @,
            !.wlog = [n \in Names |->
                        IF @[n].v = "-" THEN @[n] ELSE [@[n] EXCEPT !.sub = TRUE]]]

\* poll that never waits, whatever the wait policy.
poll_never_waits(w, fin) ==
    LET empty == fin \/ ~w.gpu_busy
    IN [ok |-> empty, w |-> [w EXCEPT !.gpu_busy = IF empty THEN FALSE ELSE @]]

\* fn poll(&self): fin says whether the device has finished the work in flight
\* by the time of a non-blocking poll; a blocking poll waits for it.
poll(w, fin) ==
    LET empty == (w.wait_mode \/ w.run_mode = Immediate) \/ fin \/ ~w.gpu_busy
    IN [ok |-> empty, w |-> [w EXCEPT !.gpu_busy = IF empty THEN FALSE ELSE @]]

\* fn ready(&self)
ready(w) == w.state = "FinishedWorking"

\* ready_to_execute without the test of the OneShot trigger.
ready_to_execute_untriggered(w) == w.state # "Working"

\* ready_to_execute that starts a cycle from Available only.
ready_to_execute_from_available(w) ==
    (w.state = "Available") /\ (w.run_mode # OneShot(FALSE))

\* fn ready_to_execute(&self)
ready_to_execute(w) == (w.state # "Working") /\ (w.run_mode # OneShot(FALSE))

\* What reaching FinishedWorking does to the history variables.
Completed(w) ==
    [w EXCEPT !.n_exec = 0, !.n_submits = 0,
              !.wlog = [n \in Names |->
                          IF @[n].v = "-" THEN @[n]
                          ELSE [@[n] EXCEPT !.fin = TRUE, !.finsub = @ \/ w.wlog[n].sub]]]

\* A cycle that records the copies before the steps.
cycle_copies_first(w) ==
    AndThen(read_staging_buffers(w), LAMBDA c :
      IF c.err # "Ok" THEN Err("Panic", Panic(c.err, c.w))
      ELSE AndThen(run_steps(c.w, 1), LAMBDA r :
        IF r.err = "PipelineNotReady" THEN Err("PipelineNotReady", r.w)
        ELSE IF r.err # "Ok" THEN Err("Panic", Panic(r.err, r.w))
        ELSE AndThen(submit(r.w), LAMBDA s :
          IF s.fatal # "none" THEN Err("Panic", s)
          ELSE Ok(map_staging_buffers(s)))))

\* A cycle that asks for the maps before it submits.
cycle_maps_before_submit(w) ==
    AndThen(run_steps(w, 1), LAMBDA r :
      IF r.err = "PipelineNotReady" THEN Err("PipelineNotReady", r.w)
      ELSE IF r.err # "Ok" THEN Err("Panic", Panic(r.err, r.w))
      ELSE AndThen(read_staging_buffers(r.w), LAMBDA c :
        IF c.err # "Ok" THEN Err("Panic", Panic(c.err, c.w))
        ELSE AndThen(submit(map_staging_buffers(c.w)), LAMBDA s :
          IF s.fatal # "none" THEN Err("Panic", s)
          ELSE Ok(s))))

\* One cycle: the steps, the copies, submit, the map requests
\* (lines 552-568 of run_aux, 519-535 of run_immediate).
cycle(w) ==
    AndThen(run_steps(w, 1), LAMBDA r :
      IF r.err = "PipelineNotReady" THEN Err("PipelineNotReady", r.w)
      ELSE IF r.err # "Ok" THEN Err("Panic", Panic(r.err, r.w))
      ELSE AndThen(read_staging_buffers(r.w), LAMBDA c :
        IF c.err # "Ok" THEN Err("Panic", Panic(c.err, c.w))
        ELSE AndThen(submit(c.w), LAMBDA s :
          IF s.fatal # "none" THEN Err("Panic", s)
          ELSE Ok(map_staging_buffers(s)))))

\* The end of run_aux without the reset of the trigger.
reset_trigger_forgotten(m) == m

\* The match at the end of run_aux: a OneShot worker is untriggered again.
reset_trigger(m) == IF m.mode = "OneShot" THEN OneShot(FALSE) ELSE m

\* run_aux without the demotion of FinishedWorking at its start.
run_aux_no_demotion(w, fin) ==
    AndThen(w, LAMBDA w1 :
      AndThen(IF ready_to_execute(w1) THEN cycle(w1) ELSE Ok(w1), LAMBDA c :
        IF c.err = "PipelineNotReady" THEN [c.w EXCEPT !.outcome = "PipelineNotReady"]
        ELSE IF c.err # "Ok" THEN c.w
        ELSE AndThen([c.w EXCEPT !.outcome = IF ready_to_execute(w1) THEN "Submitted"
                                             ELSE "NotStarted"], LAMBDA w2 :
          IF w2.run_mode = OneShot(FALSE) THEN w2
          ELSE AndThen(poll(w2, fin), LAMBDA p :
            IF p.ok
            THEN Completed([p.w EXCEPT
                     !.state = "FinishedWorking",
                     !.command_encoder = FreshEncoder,
                     !.run_mode = reset_trigger(@)])
            ELSE p.w))))

\* run_aux clearing the OneShot trigger when it abandons a cycle.
run_aux_reset_on_abandon(w, fin) ==
    AndThen(IF ready(w) THEN [w EXCEPT !.state = "Available"] ELSE w, LAMBDA w1 :
      AndThen(IF ready_to_execute(w1) THEN cycle(w1) ELSE Ok(w1), LAMBDA c :
        IF c.err = "PipelineNotReady"
        THEN [c.w EXCEPT !.outcome = "PipelineNotReady", !.run_mode = reset_trigger(@)]
        ELSE IF c.err # "Ok" THEN c.w
        ELSE AndThen([c.w EXCEPT !.outcome = IF ready_to_execute(w1) THEN "Submitted"
                                             ELSE "NotStarted"], LAMBDA w2 :
          IF w2.run_mode = OneShot(FALSE) THEN w2
          ELSE AndThen(poll(w2, fin), LAMBDA p :
            IF p.ok
            THEN Completed([p.w EXCEPT
                     !.state = "FinishedWorking",
                     !.command_encoder = FreshEncoder,
                     !.run_mode = reset_trigger(@)])
            ELSE p.w))))

\* fn run_aux(&mut self)
run_aux(w, fin) ==
    AndThen(IF ready(w) THEN [w EXCEPT !.state = "Available"] ELSE w, LAMBDA w1 :
      AndThen(IF ready_to_execute(w1) THEN cycle(w1) ELSE Ok(w1), LAMBDA c :
        IF c.err = "PipelineNotReady" THEN [c.w EXCEPT !.outcome = "PipelineNotReady"]
        ELSE IF c.err # "Ok" THEN c.w
        ELSE AndThen([c.w EXCEPT !.outcome = IF ready_to_execute(w1) THEN "Submitted"
                                             ELSE "NotStarted"], LAMBDA w2 :
          IF w2.run_mode = OneShot(FALSE) THEN w2
          ELSE AndThen(poll(w2, fin), LAMBDA p :
            IF p.ok
            THEN Completed([p.w EXCEPT
                     !.state = "FinishedWorking",
                     !.command_encoder = FreshEncoder,
                     !.run_mode = reset_trigger(@)])
            ELSE p.w))))

\* unmap_all_aux without the Immediate clause of its condition.
unmap_all_aux_when_ready(w) ==
    IF ready_to_execute(w)
    THEN [w EXCEPT !.staging_buffers =
                       [n \in DOMAIN @ |-> [@[n] EXCEPT !.mapped = FALSE]]]
    ELSE w

\* unmap_all_aux that does not look at the OneShot trigger.
unmap_all_aux_untriggered(w) ==
    IF w.state # "Working" \/ w.run_mode = Immediate
    THEN [w EXCEPT !.staging_buffers =
                       [n \in DOMAIN @ |-> [@[n] EXCEPT !.mapped = FALSE]]]
    ELSE w

\* fn unmap_all_aux(&mut self)
unmap_all_aux(w) ==
    IF ready_to_execute(w) \/ w.run_mode = Immediate
    THEN [w EXCEPT !.staging_buffers =
                       [n \in DOMAIN @ |-> [@[n] EXCEPT !.mapped = FALSE]]]
    ELSE w

\* AppPipelineCache::get_compute_pipeline: Some exactly for a compiled pipeline.
get_compute_pipeline(cache, id) == id \in cache

\* extract_pipelines_aux with the is_some test inverted: it refreshes the
\* entries that are resolved and skips the ones that are not.
extract_pipelines_aux_inverted(w, cache) ==
    [w EXCEPT !.pipelines =
        [s \in DOMAIN @ |->
            IF s \in DOMAIN w.cached_pipeline_ids /\ @[s]
            THEN get_compute_pipeline(cache, w.cached_pipeline_ids[s])
            ELSE @[s]]]

\* extract_pipelines_aux without the is_some test: it refreshes every entry.
extract_pipelines_aux_overwriting(w, cache) ==
    [w EXCEPT !.pipelines =
        [s \in DOMAIN @ |->
            IF s \in DOMAIN w.cached_pipeline_ids
            THEN get_compute_pipeline(cache, w.cached_pipeline_ids[s])
            ELSE @[s]]]

\* fn extract_pipelines_aux(&mut self, pipeline_cache)
extract_pipelines_aux(w, cache) ==
    [w EXCEPT !.pipelines =
        [s \in DOMAIN @ |->
            IF s \in DOMAIN w.cached_pipeline_ids /\ ~@[s]
            THEN get_compute_pipeline(cache, w.cached_pipeline_ids[s])
            ELSE @[s]]]

\* run_immediate answering true also when a pipeline was missing.
run_immediate_always_true(w) ==
    AndThen(cycle(w), LAMBDA c :
      IF c.err = "PipelineNotReady" THEN [c.w EXCEPT !.outcome = "ReturnedTrue"]
      ELSE IF c.err # "Ok" THEN c.w
      ELSE AndThen(poll(c.w, FALSE), LAMBDA p :
        [(IF p.ok THEN [p.w EXCEPT !.command_encoder = FreshEncoder] ELSE p.w)
           EXCEPT !.outcome = "ReturnedTrue"]))

\* run_immediate without the new encoder after its poll.
run_immediate_encoder_spent(w) ==
    AndThen(cycle(w), LAMBDA c :
      IF c.err = "PipelineNotReady" THEN [c.w EXCEPT !.outcome = "ReturnedFalse"]
      ELSE IF c.err # "Ok" THEN c.w
      ELSE AndThen(poll(c.w, FALSE), LAMBDA p :
        [p.w EXCEPT !.outcome = "ReturnedTrue"]))

\* fn run_immediate(&mut self) -> bool
run_immediate(w) ==
    AndThen(cycle(w), LAMBDA c :
      IF c.err = "PipelineNotReady" THEN [c.w EXCEPT !.outcome = "ReturnedFalse"]
      ELSE IF c.err # "Ok" THEN c.w
      ELSE AndThen(poll(c.w, FALSE), LAMBDA p :
        [(IF p.ok THEN [p.w EXCEPT !.command_encoder = FreshEncoder] ELSE p.w)
           EXCEPT !.outcome = "ReturnedTrue"]))

\* fn execute_now(&mut self, pipeline_cache) -> bool
execute_now(w, cache) ==
    IF w.run_mode.mode # "Immediate" THEN Panic("ExecuteNowNotImmediate", w)
    ELSE AndThen(extract_pipelines_aux(w, cache), LAMBDA w1 :
           AndThen(unmap_all_aux(w1), LAMBDA w2 :
             AndThen(poll(w2, FALSE).w, LAMBDA w3 : run_immediate(w3))))

\* execute that lets an Immediate worker through.
execute_any_mode(w) ==
    IF w.run_mode.mode = "OneShot"
    THEN [w EXCEPT !.run_mode = OneShot(TRUE), !.n_exec = @ + 1]
    ELSE w

\* fn execute(&mut self)
execute(w) ==
    IF w.run_mode.mode = "Continuous" THEN w
    ELSE IF w.run_mode.mode = "OneShot"
         THEN [w EXCEPT !.run_mode = OneShot(TRUE), !.n_exec = @ + 1]
    ELSE Panic("ExecuteInImmediate", w)

\* The index set_dispatch_size's position() finds: the first matching pass.
shader_position(w, s) ==
    LET found == {i \in DOMAIN w.steps :
                    w.steps[i].kind = "ComputePass" /\ w.steps[i].shader_type_path = s}
    IN IF found = {} THEN 0 ELSE CHOOSE i \in found : \A j \in found : i <= j

\* set_dispatch_size giving the size to every pass instead of the one found.
set_dispatch_size_every_pass(w, s, size) ==
    LET shader_index == shader_position(w, s)
    IN IF shader_index = 0 THEN Panic("ShaderNotFound", w)
       ELSE [w EXCEPT !.steps =
                [i \in DOMAIN @ |->
                    IF @[i].kind = "ComputePass"
                    THEN [@[i] EXCEPT !.dispatch_size = size] ELSE @[i]]]

\* fn set_dispatch_size<S>(&mut self, dispatch_size)
set_dispatch_size(w, s, size) ==
    LET shader_index == shader_position(w, s)
    IN IF shader_index = 0 THEN Panic("ShaderNotFound", w)
       ELSE [w EXCEPT !.steps[shader_index].dispatch_size = size]

\* What insert-then-destroy does to the set of destroyed allocations.
destroy_old(w, name) ==
    w.destroyed \cup (IF name \in DOMAIN w.buffers THEN {w.buffers[name].id} ELSE {})

\* fn add_uniform(&mut self, render_device, name, uniform)
add_uniform(w, name, v) ==
    [w EXCEPT !.buffers = Put(@, name, [id |-> w.next_id, kind |-> "uniform", data |-> v,
                                         size |-> ByteSize(v)]),
              !.next_id = @ + 1,
              !.destroyed = destroy_old(w, name)]

\* fn add_storage(&mut self, render_device, name, storage)
add_storage(w, name, v) ==
    [w EXCEPT !.buffers = Put(@, name, [id |-> w.next_id, kind |-> "storage", data |-> v,
                                         size |-> ByteSize(v)]),
              !.next_id = @ + 1,
              !.destroyed = destroy_old(w, name)]

\* add_rw_storage that drops the old buffer without destroy().
add_rw_storage_leaking(w, name, v) ==
    [w EXCEPT !.buffers = Put(@, name, [id |-> w.next_id, kind |-> "rw", data |-> v,
                                         size |-> ByteSize(v)]),
              !.next_id = @ + 1]

\* fn add_rw_storage(&mut self, render_device, name, storage)
add_rw_storage(w, name, v) ==
    [w EXCEPT !.buffers = Put(@, name, [id |-> w.next_id, kind |-> "rw", data |-> v,
                                         size |-> ByteSize(v)]),
              !.next_id = @ + 1,
              !.destroyed = destroy_old(w, name)]

\* fn add_staging(&mut self, render_device, name, data)
add_staging(w, name, v) ==
    LET w1 == add_rw_storage(w, name, v)
    IN [w1 EXCEPT !.staging_buffers =
                      Put(@, name, [mapped |-> TRUE, id |-> w1.next_id, data |-> "zero",
                                    size |-> w1.buffers[name].size]),
                  !.next_id = @ + 1,
                  !.destroyed = @ \cup (IF name \in DOMAIN w.staging_buffers
                                        THEN {w.staging_buffers[name].id} ELSE {}),
                  !.wlog[name] = NoWrite]

\* try_write that writes the bytes to every registered buffer.
try_write_everywhere(w, name, v) ==
    IF name \notin DOMAIN w.buffers THEN Err("BufferNotFound", w)
    ELSE Ok([w EXCEPT !.buffers = [n \in DOMAIN @ |-> [@[n] EXCEPT !.data = v]],
                      !.wlog[name] = [v |-> v, sub |-> FALSE, fin |-> FALSE,
                                      finsub |-> FALSE]])

\* try_write that never hands the bytes to the queue.
try_write_unqueued(w, name, v) ==
    IF name \notin DOMAIN w.buffers THEN Err("BufferNotFound", w)
    ELSE Ok([w EXCEPT !.wlog[name] = [v |-> v, sub |-> FALSE, fin |-> FALSE,
                                      finsub |-> FALSE]])

\* fn try_write(&mut self, target, data): the write goes onto the queue, behind
\* everything submitted before it and ahead of the next submit.
try_write(w, name, v) ==
    IF name \notin DOMAIN w.buffers THEN Err("BufferNotFound", w)
    ELSE Ok([w EXCEPT !.buffers[name].data = v,
                      !.wlog[name] = [v |-> v, sub |-> FALSE, fin |-> FALSE,
                                      finsub |-> FALSE]])

\* fn try_read_raw(&self, target): the bytes of the mapped range.
try_read_raw(w, name) ==
    IF name \notin DOMAIN w.staging_buffers
    THEN [err |-> "StagingBufferNotFound", data |-> "-"]
    ELSE IF ~w.staging_buffers[name].mapped
         THEN [err |-> "NotMapped", data |-> "-"]
    ELSE [err |-> "Ok", data |-> w.staging_buffers[name].data]

(***************************************************************************)
(* The state machine.                                                      *)
(***************************************************************************)
Init ==
    /\ \E b \in Builders : Holds(From(b))
    /\ other = Alone
    /\ pipeline_cache = {}
    /\ pc = "update"

Alive == fatal = "none"

\* An aborted run keeps what it recorded in the encoder, so the encoder grows
\* with every frame that finds a pipeline missing.  The model lets a frame (or
\* an execute_now) begin only if it leaves at most MaxStale step records behind.
Bounded(w) == Len(w.cycle_log) <= MaxStale

\* Update: AppComputeWorker::extract_pipelines
ExtractPipelines ==
    /\ Alive /\ pc = "update"
    /\ \E w \in {extract_pipelines_aux(Self, pipeline_cache)} :
          /\ \E after \in {run_aux(unmap_all_aux(w), FALSE)} : Bounded(after)
          /\ Commit(w)
    /\ pc' = "unmap"
    /\ UNCHANGED pipeline_cache

\* PostUpdate: AppComputeWorker::unmap_all
UnmapAll ==
    /\ Alive /\ pc = "unmap"
    /\ \E w \in {unmap_all_aux(Self)} : Commit(w)
    /\ pc' = "run"
    /\ UNCHANGED pipeline_cache

\* PostUpdate: AppComputeWorker::run
Run ==
    /\ Alive /\ pc = "run"
    /\ \E fin \in BOOLEAN : \E w \in {run_aux(Self, fin)} : Commit(w)
    /\ pc' = "update"
    /\ UNCHANGED pipeline_cache

\* A user system calls execute().
Execute ==
    /\ Alive /\ pc = "update"
    /\ n_exec < MaxExec
    /\ \E w \in {execute(Self)} : Commit(w)
    /\ UNCHANGED <<pc, pipeline_cache>>

\* A user system calls execute_now().
ExecuteNow ==
    /\ Alive /\ pc = "update"
    /\ \E w \in {execute_now(Self, pipeline_cache)} : Bounded(w) /\ Commit(w)
    /\ UNCHANGED <<pc, pipeline_cache>>

\* A user system calls set_dispatch_size.
SetDispatchSize ==
    /\ Alive /\ pc = "update"
    /\ \E s \in Shaders, size \in Sizes :
          \E w \in {set_dispatch_size(Self, s, size)} : Commit(w)
    /\ UNCHANGED <<pc, pipeline_cache>>

\* A user system calls add_staging on a declared name.
AddStaging ==
    /\ Alive /\ pc = "update"
    /\ next_id + 1 <= MaxIds
    /\ \E name \in DOMAIN staging_buffers :
          \E w \in {add_staging(Self, name, "new")} : Commit(w)
    /\ UNCHANGED <<pc, pipeline_cache>>

\* A user system calls add_uniform / add_storage / add_rw_storage on a
\* declared name.
AddUniform ==
    /\ Alive /\ pc = "update"
    /\ next_id <= MaxIds
    /\ \E name \in DOMAIN buffers :
          \E w \in {add_uniform(Self, name, "new")} : Commit(w)
    /\ UNCHANGED <<pc, pipeline_cache>>

AddStorage ==
    /\ Alive /\ pc = "update"
    /\ next_id <= MaxIds
    /\ \E name \in DOMAIN buffers :
          \E w \in {add_storage(Self, name, "new")} : Commit(w)
    /\ UNCHANGED <<pc, pipeline_cache>>

AddRwStorage ==
    /\ Alive /\ pc = "update"
    /\ next_id <= MaxIds
    /\ \E name \in DOMAIN buffers :
          \E w \in {add_rw_storage(Self, name, "new")} : Commit(w)
    /\ UNCHANGED <<pc, pipeline_cache>>

\* A user system calls write / write_slice.
Write ==
    /\ Alive /\ pc = "update"
    /\ \E name \in Names, v \in WriteVals :
          \E w \in {try_write(Self, name, v).w} : Commit(w)
    /\ UNCHANGED <<pc, pipeline_cache>>

\* The render world's pipeline cache finishes compiling a queued pipeline.
CacheReady ==
    /\ Alive /\ pc = "update"
    /\ \E s \in DOMAIN cached_pipeline_ids :
          /\ cached_pipeline_ids[s] \notin pipeline_cache
          /\ pipeline_cache' = pipeline_cache \cup {cached_pipeline_ids[s]}
    /\ UNCHANGED <<state, run_mode, wait_mode, cached_pipeline_ids, pipelines,
                   buffers, staging_buffers, steps, command_encoder, gpu_busy,
                   next_id, destroyed, queued, pc, fatal, cycle_log, submitted,
                   n_exec, n_submits, copy_mapped, maps, other, wlog, outcome>>

\* The device finishes the submitted work.
DeviceComplete ==
    /\ Alive /\ gpu_busy
    /\ gpu_busy' = FALSE
    /\ UNCHANGED <<state, run_mode, wait_mode, cached_pipeline_ids, pipelines,
                   buffers, staging_buffers, steps, command_encoder,
                   pipeline_cache, next_id, destroyed, queued, pc, fatal,
                   cycle_log, submitted, n_exec, n_submits, copy_mapped, maps, other,
                   wlog,
                   outcome>>

Next ==
    \/ ExtractPipelines
    \/ UnmapAll
    \/ Run
    \/ Execute
    \/ ExecuteNow
    \/ SetDispatchSize
    \/ AddStaging
    \/ CacheReady
    \/ DeviceComplete

\* The frames and every call that decides what the worker does.  write() only
\* changes contents, which no branch of the worker reads; it has its own
\* specification.
Spec == Init /\ [][Next]_vars

NextWrite ==
    \/ ExtractPipelines
    \/ UnmapAll
    \/ Run
    \/ Execute
    \/ Write
    \/ CacheReady
    \/ DeviceComplete

\* The frames with write() calls between them.
SpecWrite == Init /\ [][NextWrite]_vars

(***************************************************************************)
(* The builder at work: ComputeWorker::build calls the builder's methods   *)
(* one after another.  The variables hold what build() would give now.     *)
(***************************************************************************)
TheBuilder ==
    [cached_pipeline_ids |-> cached_pipeline_ids, buffers |-> buffers,
     staging_buffers |-> staging_buffers, steps |-> steps, run_mode |-> run_mode,
     wait_mode |-> wait_mode, next_id |-> next_id, queued |-> queued]

InitBuild ==
    /\ Holds(From(BuilderNew))
    /\ other = Alone
    /\ pipeline_cache = {}
    /\ pc = "build"

PassVars == {<<"A">>, <<"A", "B">>}

BuildAddStaging ==
    /\ pc = "build" /\ next_id + 1 <= MaxIds
    /\ \E name \in Names :
          \E w \in {From(builder_add_staging(TheBuilder, name, "init"))} : Commit(w)
    /\ UNCHANGED <<pc, pipeline_cache>>

BuildAddPass ==
    /\ pc = "build" /\ Len(steps) < MaxSteps
    /\ \E s \in Shaders, vs \in PassVars :
          \E w \in {From(builder_add_pass(TheBuilder, s, 1, vs))} : Commit(w)
    /\ UNCHANGED <<pc, pipeline_cache>>

BuildAddSwap ==
    /\ pc = "build" /\ Len(steps) < MaxSteps
    /\ \E w \in {From(builder_add_swap(TheBuilder, "A", "B"))} : Commit(w)
    /\ UNCHANGED <<pc, pipeline_cache>>

NextBuild ==
    \/ BuildAddStaging
    \/ BuildAddPass
    \/ BuildAddSwap

SpecBuild == InitBuild /\ [][NextBuild]_vars

\* A Continuous worker whose frames keep coming, whose pipelines get compiled
\* and whose device finishes what it is given.
InitContinuous == Init /\ run_mode = Continuous

\* The three systems of a frame; pc enables exactly one of them.
Frame == ExtractPipelines \/ UnmapAll \/ Run

NextFrames ==
    \/ ExtractPipelines
    \/ UnmapAll
    \/ Run
    \/ CacheReady
    \/ DeviceComplete

\* Fair ticking, a cache in which every compilation ends (the cache is looked
\* at once per frame, so the chance recurs with every frame), and a device
\* that ends the work it was given.
FairSpec ==
    /\ InitContinuous
    /\ [][NextFrames]_vars
    /\ WF_vars(Frame) /\ SF_vars(CacheReady) /\ WF_vars(DeviceComplete)

InitOneShot == Init /\ run_mode = OneShot(FALSE)

\* The frames of a OneShot worker and a user system that calls execute().
NextOneShot ==
    \/ ExtractPipelines
    \/ UnmapAll
    \/ Run
    \/ Execute
    \/ CacheReady
    \/ DeviceComplete

\* As FairSpec, for a OneShot worker: the frames keep coming, compilations
\* end, the device ends its work; the user calls execute() when they like.
FairOneShot ==
    /\ InitOneShot
    /\ [][NextOneShot]_vars
    /\ WF_vars(Frame) /\ SF_vars(CacheReady) /\ WF_vars(DeviceComplete)

(***************************************************************************)
(* Two workers on one device.  Each worker's gpu_busy says that work it    *)
(* submitted is still in flight; poll asks the device, whose queue holds    *)
(* the work of both.                                                       *)
(***************************************************************************)
\* The declarations of the second worker: one declaration, in every run mode
\* and with either wait policy.
OtherBuilders ==
    UNION {WaitModeCalls(m) : m \in RunModeCalls(DeclMultiPass)}

\* Worker x as its methods find it: the device has work in flight if either
\* worker's submission is.
OnDevice(x, y) == [x EXCEPT !.gpu_busy = @ \/ y.gpu_busy]

\* Worker x after run_aux gave r on the shared device: its own work is in
\* flight if the poll left the queue non-empty and it had or has just
\* submitted some.
AfterOwn(x, r) ==
    [r EXCEPT !.gpu_busy = r.gpu_busy /\ (x.gpu_busy \/ r.outcome = "Submitted")]

\* The other worker y after that run_aux: a poll that found (or waited for)
\* an empty queue has seen y's work completed too.
Bystander(y, r) == [y EXCEPT !.gpu_busy = @ /\ r.gpu_busy]

InitTwo ==
    /\ \E b \in Builders : Holds(From(b))
    /\ \E b \in OtherBuilders : other = From(b)
    /\ pipeline_cache = {}
    /\ pc = "update"

\* PostUpdate: AppComputeWorker::run of the first worker, on the shared device.
RunShared ==
    /\ Alive /\ pc = "run"
    /\ \E fin \in BOOLEAN :
          \E r \in {run_aux(OnDevice(Self, other), fin)} :
              /\ CommitSelf(AfterOwn(Self, r))
              /\ other' = Bystander(other, r)
    /\ pc' = "update"
    /\ UNCHANGED pipeline_cache

\* The three systems of the second worker in a frame (its pipelines are
\* compiled when it looks).
OtherTick ==
    /\ Alive /\ pc = "update"
    /\ \E fin \in BOOLEAN :
          \E r \in {run_aux(unmap_all_aux(extract_pipelines_aux(
                          OnDevice(other, Self), Range(other.cached_pipeline_ids))),
                        fin)} :
              /\ other' = AfterOwn(other, r)
              /\ gpu_busy' = (gpu_busy /\ r.gpu_busy)
    /\ UNCHANGED <<state, run_mode, wait_mode, cached_pipeline_ids, pipelines,
                   buffers, staging_buffers, steps, command_encoder,
                   pipeline_cache, next_id, destroyed, queued, pc, fatal,
                   cycle_log, submitted, n_exec, n_submits, copy_mapped, maps,
                   wlog, outcome>>

\* A user system calls execute() on the second worker.
OtherExecute ==
    /\ Alive /\ pc = "update"
    /\ other.run_mode = OneShot(FALSE)
    /\ other' = execute(other)
    /\ UNCHANGED <<state, run_mode, wait_mode, cached_pipeline_ids, pipelines,
                   buffers, staging_buffers, steps, command_encoder, gpu_busy,
                   pipeline_cache, next_id, destroyed, queued, pc, fatal,
                   cycle_log, submitted, n_exec, n_submits, copy_mapped, maps,
                   wlog, outcome>>

\* The device finishes the work of the second worker.
OtherDeviceComplete ==
    /\ Alive /\ other.gpu_busy
    /\ other' = [other EXCEPT !.gpu_busy = FALSE]
    /\ UNCHANGED <<state, run_mode, wait_mode, cached_pipeline_ids, pipelines,
                   buffers, staging_buffers, steps, command_encoder, gpu_busy,
                   pipeline_cache, next_id, destroyed, queued, pc, fatal,
                   cycle_log, submitted, n_exec, n_submits, copy_mapped, maps,
                   wlog, outcome>>

NextTwo ==
    \/ ExtractPipelines
    \/ UnmapAll
    \/ RunShared
    \/ Execute
    \/ CacheReady
    \/ DeviceComplete
    \/ OtherTick
    \/ OtherExecute
    \/ OtherDeviceComplete

\* The frames of two workers that share the device.
SpecTwo == InitTwo /\ [][NextTwo]_vars

\* The frames of a Continuous worker whose user systems replace buffers.
NextAlloc ==
    \/ ExtractPipelines
    \/ UnmapAll
    \/ Run
    \/ AddUniform
    \/ AddStorage
    \/ AddRwStorage
    \/ AddStaging
    \/ CacheReady
    \/ DeviceComplete

SpecAlloc == InitContinuous /\ [][NextAlloc]_vars

(***************************************************************************)
(* Properties.                                                             *)
(***************************************************************************)
TypeOK ==
    /\ state \in {"Created", "Available", "Working", "FinishedWorking"}
    /\ run_mode \in {Continuous, OneShot(FALSE), OneShot(TRUE), Immediate}
    /\ pc \in {"build", "update", "unmap", "run"}
    /\ DOMAIN staging_buffers \subseteq Names
    /\ DOMAIN buffers \subseteq Names

\* The step indices of one pass over the declared steps.
DeclarationOrder == [i \in 1..Len(steps) |-> i]

\* The run of the frame has just ended with the given outcome.
RunEnds(o) == pc = "run" /\ pc' = "update" /\ outcome' = o

\* name -> allocation, for the device buffers.
Assignment == [n \in DOMAIN buffers |-> buffers[n].id]
MappedFlags == [n \in DOMAIN staging_buffers |-> staging_buffers[n].mapped]

\* C1: every submitted command stream carries each step exactly once, in
\* declaration order: the steps processed between two submits are 1, 2, ..., n.
C1_StepsOncePerCycle == submitted.any => submitted.log = DeclarationOrder

\* C2: a run that stops with PipelineNotReady submits nothing and leaves the
\* state, the run mode, the steps, the mapped flags and the name -> allocation
\* assignment as they were.
C2_AbortHasNoEffect ==
    [][RunEnds("PipelineNotReady") =>
          /\ submitted' = submitted
          /\ state' = state
          /\ run_mode' = run_mode
          /\ steps' = steps
          /\ MappedFlags' = MappedFlags
          /\ Assignment' = Assignment]_vars

\* The copies of the last submitted stream.
SubmittedCopies == {c \in Range(submitted.cmds) : c.op = "copy"}

\* C3: whenever a cycle records the copy into a staging buffer, that buffer's
\* mapped flag is false (copy_mapped remembers a copy recorded into a buffer
\* whose flag was true).
C3_CopyIntoUnmapped == ~copy_mapped

\* C3's case: a cycle was submitted whose copy went into a staging buffer that
\* add_staging created at run time (the declarations' handles end at 5).
C3_Witness ==
    /\ submitted.any
    /\ \E n \in DOMAIN staging_buffers :
          /\ staging_buffers[n].id > 5
          /\ \E c \in SubmittedCopies : c.dst = staging_buffers[n].id

\* C4: a OneShot worker is Working only with the trigger set, and the trigger
\* is set only by an execute() made since the last completion (n_exec counts
\* them and returns to 0 at FinishedWorking).
C4_OneShotNeedsExecute ==
    run_mode.mode = "OneShot" =>
        /\ state = "Working" => run_mode.trig
        /\ n_submits > 0 => run_mode.trig
        /\ run_mode.trig => n_exec > 0

\* C4's case: a OneShot cycle in flight after one execute().
C4_Witness ==
    run_mode.mode = "OneShot" /\ state = "Working" /\ n_exec = 1 /\ n_submits = 1

\* The worker without the count of execute() calls.
Program(w) == [w EXCEPT !.n_exec = 0]

\* C5: in OneShot mode a second execute() changes nothing the first did not,
\* at most one cycle is submitted between two completions however many
\* execute() calls were made, and a completed cycle leaves the trigger unset.
C5_ExecuteTwiceAsOnce ==
    run_mode.mode = "OneShot" =>
        /\ Program(execute(execute(Self))) = Program(execute(Self))
        /\ n_submits <= 1
        /\ (state = "FinishedWorking" /\ n_exec = 0) => ~run_mode.trig

\* C5's case: two execute() calls, one cycle in flight.
C5_Witness ==
    run_mode.mode = "OneShot" /\ n_exec = 2 /\ n_submits = 1 /\ state = "Working"

\* C6: a Continuous worker whose frames keep coming, whose pipelines get
\* compiled and whose device finishes its work reaches FinishedWorking again
\* and again, and no frame ends in a fatal error.
C6_ContinuousCompletes == []<>(state = "FinishedWorking") /\ [](fatal = "none")

\* C6's case: a cycle completed after a frame that found a pipeline missing
\* (the submitted stream still carries what that frame recorded).
C6_Witness ==
    /\ run_mode = Continuous /\ state = "FinishedWorking"
    /\ Len(submitted.log) > Len(steps)

\* C7: whenever ready() is true where caller code runs (the Update stage),
\* every staging buffer is marked mapped.
C7_ReadyMeansMapped ==
    (pc = "update" /\ Alive /\ ready(Self)) =>
        \A n \in DOMAIN staging_buffers : staging_buffers[n].mapped

\* No pass binds the name and no swap names it.
Untouched(n) ==
    \A i \in DOMAIN steps :
        /\ steps[i].kind = "ComputePass" => n \notin Range(steps[i].vars)
        /\ steps[i].kind = "Swap" => n # steps[i].a /\ n # steps[i].b

\* The read of a value written earlier succeeds and gives that value.
ReadsWritten(n) == try_read_raw(Self, n) = [err |-> "Ok", data |-> wlog[n].v]

C9_SwapTwiceRestores ==
    \A x \in DOMAIN buffers, y \in DOMAIN buffers :
        LET once == swap_names(Self, x, y)
            twice == swap_names(once.w, x, y)
        IN /\ once.err = "Ok" /\ twice.err = "Ok"
           /\ \A n \in DOMAIN buffers \ {x, y} : once.w.buffers[n] = buffers[n]
           /\ once.w.staging_buffers = staging_buffers
           /\ twice.w.buffers = buffers

\* The dispatch sizes of a command stream, and those of the passes.
IsDispatch(c) == c.op = "dispatch"
IsPass(st) == st.kind = "ComputePass"
CmdSizes(cmds) ==
    LET ds == SelectSeq(cmds, IsDispatch) IN [i \in DOMAIN ds |-> ds[i].size]
PassSizes(sts) ==
    LET ps == SelectSeq(sts, IsPass) IN [i \in DOMAIN ps |-> ps[i].dispatch_size]
LastOf(q, k) == SubSeq(q, Len(q) - k + 1, Len(q))

\* C10: set_dispatch_size::<S>(n) gives n to the pass of S; a step that
\* changes the steps changes the size of one pass and nothing else of the
\* worker; and the dispatches a submitted cycle recorded in its own run (the
\* last ones of the stream, one per pass) carry the sizes the passes have.
C10_SetDispatchSizeOnly ==
    [][/\ \A s \in Shaders, size \in Sizes :
             LET i == shader_position(Self, s)
                 w == set_dispatch_size(Self, s, size)
             IN i # 0 => /\ w.steps[i].dispatch_size = size
                         /\ w.steps[i].shader_type_path = s
       /\ steps' # steps =>
             /\ \E i \in DOMAIN steps :
                   /\ IsPass(steps[i])
                   /\ steps' = [steps EXCEPT ![i].dispatch_size = steps'[i].dispatch_size]
             /\ UNCHANGED <<state, run_mode, wait_mode, cached_pipeline_ids,
                            pipelines, buffers, staging_buffers, command_encoder,
                            submitted, fatal>>
       /\ submitted' # submitted =>
             LastOf(CmdSizes(submitted'.cmds), Len(PassSizes(steps))) = PassSizes(steps)
      ]_vars

\* C10's case: a cycle submitted after set_dispatch_size made the two passes
\* of a declaration differ in size (all declarations give their passes one
\* size), whose own dispatches carry the two sizes.
C10_Witness ==
    /\ submitted.any
    /\ Len(PassSizes(steps)) = 2 /\ PassSizes(steps)[1] # PassSizes(steps)[2]
    /\ LastOf(CmdSizes(submitted.cmds), 2) = PassSizes(steps)

\* The shader identities the passes use, and the handle a pass resolves to.
UsedShaders == {st.shader_type_path : st \in {x \in Range(steps) : IsPass(x)}}
PipelineOf(i) == cached_pipeline_ids[steps[i].shader_type_path]

\* C11: whatever add_pass calls were made, one compilation was requested per
\* distinct shader identity (the ids are those requests, each given once),
\* and two passes of one identity resolve to the same handle.
C11_OnePipelinePerShader ==
    /\ DOMAIN cached_pipeline_ids = UsedShaders
    /\ queued = Cardinality(UsedShaders)
    /\ Range(cached_pipeline_ids) = 0..(queued - 1)
    /\ \A i \in DOMAIN steps, j \in DOMAIN steps :
          (IsPass(steps[i]) /\ IsPass(steps[j])
             /\ steps[i].shader_type_path = steps[j].shader_type_path)
            => PipelineOf(i) = PipelineOf(j)

\* C11's case: three passes, two of them of one shader identity, two requests.
C11_Witness ==
    /\ pc = "build" /\ Len(steps) = 3 /\ \A i \in DOMAIN steps : IsPass(steps[i])
    /\ steps[1].shader_type_path = steps[3].shader_type_path
    /\ steps[1].shader_type_path # steps[2].shader_type_path
    /\ queued = 2

\* C12: in Immediate mode the run system of a frame records nothing and
\* submits nothing.
C12_ImmediateTickIdle ==
    [][(pc = "run" /\ pc' = "update" /\ run_mode = Immediate) =>
          /\ submitted' = submitted
          /\ command_encoder'.cmds = command_encoder.cmds]_vars

\* The pipeline of shader s is there once extract_pipelines_aux has looked.
ReadyAfterRefresh(s) == pipelines[s] \/ cached_pipeline_ids[s] \in pipeline_cache

\* The copies among the commands recorded after the first k.
CopiesAfter(cmds, k) ==
    {[src |-> c.src, dst |-> c.dst] :
        c \in {d \in Range(SubSeq(cmds, k + 1, Len(cmds))) : d.op = "copy"}}

\* C13: on an Immediate worker execute_now() answers false exactly if the
\* pipeline of some pass is missing after the refresh; then nothing is
\* submitted and the state is as before.  When it answers true, the call has
\* processed every step once in order, recorded one copy per staging buffer,
\* submitted, and asked for every staging buffer to be mapped.
C13_ExecuteNowAnswer ==
    (pc = "update" /\ Alive /\ run_mode = Immediate) =>
        LET w == execute_now(Self, pipeline_cache)
            missing == \E st \in Range(steps) :
                          IsPass(st) /\ ~ReadyAfterRefresh(st.shader_type_path)
        IN /\ w.outcome \in {"ReturnedFalse", "ReturnedTrue"}
           /\ (w.outcome = "ReturnedFalse") <=> missing
           /\ w.outcome = "ReturnedFalse" =>
                 /\ w.submitted = submitted
                 /\ w.state = state
           /\ w.outcome = "ReturnedTrue" =>
                 /\ w.submitted.any
                 /\ w.submitted.log = cycle_log \o DeclarationOrder
                 /\ w.submitted.cmds # command_encoder.cmds
                 /\ CopiesAfter(w.submitted.cmds, Len(command_encoder.cmds)) =
                       {[src |-> w.buffers[n].id, dst |-> w.staging_buffers[n].id] :
                           n \in DOMAIN staging_buffers}
                 /\ w.state = "Working"
                 /\ \A n \in DOMAIN w.staging_buffers : w.staging_buffers[n].mapped

\* C13's case: execute_now() has answered true on a worker it had answered
\* false to before (a step record of the earlier call is still there).
C13_Witness ==
    /\ run_mode = Immediate /\ outcome = "ReturnedTrue" /\ state = "Working"
    /\ Len(submitted.log) > Len(steps)

\* The worker after a panic is the worker before it, but for the panic.
OnlyPanicked(w) ==
    /\ w.fatal # "none"
    /\ [w EXCEPT !.fatal = fatal, !.outcome = outcome] = Self

\* C14: execute() on an Immediate worker and execute_now() on a Continuous or
\* OneShot worker end in a panic, and have done nothing before it: no step
\* processed, nothing recorded, nothing submitted.
C14_WrongEntryPoint ==
    (pc = "update" /\ Alive) =>
        /\ run_mode = Immediate => OnlyPanicked(execute(Self))
        /\ run_mode # Immediate => OnlyPanicked(execute_now(Self, pipeline_cache))

\* C14's case: execute_now() was called on a OneShot worker whose trigger
\* was set, and ended the process.
C14_Witness ==
    /\ fatal = "ExecuteNowNotImmediate"
    /\ run_mode = OneShot(TRUE)

\* C15: a read of a name that has no staging buffer, or whose staging buffer
\* is not marked mapped, fails with StagingBufferNotFound.
C15_ReadNeedsMapped ==
    (pc = "update" /\ Alive) =>
        \A n \in Names :
            (n \notin DOMAIN staging_buffers \/ ~staging_buffers[n].mapped)
                => try_read_raw(Self, n).err = "StagingBufferNotFound"

\* C16: a write to an unregistered name gives BufferNotFound and leaves the
\* worker and the device as they were; a write to a registered name puts the
\* value into the allocation the name is assigned to now, into no other, and
\* changes nothing else (the history of writes aside).
C16_WriteOneBuffer ==
    (pc = "update" /\ Alive) =>
        \A n \in Names, v \in WriteVals :
            LET r == try_write(Self, n, v)
            IN /\ n \notin DOMAIN buffers => r.err = "BufferNotFound" /\ r.w = Self
               /\ n \in DOMAIN buffers =>
                     /\ r.err = "Ok"
                     /\ r.w.buffers[n] = [buffers[n] EXCEPT !.data = v]
                     /\ \A m \in DOMAIN buffers \ {n} : r.w.buffers[m] = buffers[m]
                     /\ [r.w EXCEPT !.buffers = buffers, !.wlog = wlog] = Self

\* C16's case: a write was made to a name after a swap had given it the
\* other name's allocation, and that allocation holds the value.
C16_Witness ==
    \E n \in DOMAIN buffers :
        /\ wlog[n].v # "-" /\ ~wlog[n].sub
        /\ buffers[n].data = wlog[n].v
        /\ n = "A" /\ buffers[n].id = 4

\* The allocations the names refer to, and all the device has given out.
BufferIds == {buffers[n].id : n \in DOMAIN buffers}
StagingIds == {staging_buffers[n].id : n \in DOMAIN staging_buffers}
Allocated == 1..(next_id - 1)

\* C17: every name refers to an allocation of its own that is not destroyed,
\* and the allocations no name refers to any more are exactly the destroyed
\* ones, for the device buffers and the staging buffers.
C17_OneLiveAllocation ==
    /\ \A n \in DOMAIN buffers, m \in DOMAIN buffers :
          buffers[n].id = buffers[m].id => n = m
    /\ \A n \in DOMAIN staging_buffers, m \in DOMAIN staging_buffers :
          staging_buffers[n].id = staging_buffers[m].id => n = m
    /\ BufferIds \cap StagingIds = {}
    /\ (BufferIds \cup StagingIds) \cap destroyed = {}
    /\ Allocated \ (BufferIds \cup StagingIds) = destroyed

\* C17's case: a swap had given A the allocation declared for B (handle 4),
\* then A was replaced: handle 4 is destroyed and B still has A's first one.
C17_Witness ==
    /\ 4 \in destroyed
    /\ "B" \in DOMAIN buffers /\ buffers["B"].id = 2
    /\ submitted.any

\* C18: a tick's run that begins in FinishedWorking demotes the state to
\* Available before it decides whether to start a cycle, so ready() is true
\* after a tick only if a cycle completed during that tick: either the cycle
\* the tick itself submitted, or one that was in flight when it began.  In
\* particular a run that begins in FinishedWorking and starts no cycle (or
\* whose cycle is still in flight) ends with ready() false, and no step other
\* than the run makes ready() true.
TickRun == pc = "run" /\ pc' = "update"
C18_ReadyForOneWindow ==
    [][/\ (TickRun /\ state' = "FinishedWorking")
            => (outcome' = "Submitted" \/ state = "Working")
       /\ (TickRun /\ state = "FinishedWorking" /\ fatal' = "none")
            => \/ state' = "Available" /\ outcome' \in {"NotStarted", "PipelineNotReady"}
               \/ state' = "Working" /\ outcome' = "Submitted"
               \/ state' = "FinishedWorking" /\ outcome' = "Submitted"
       /\ (~TickRun /\ state' = "FinishedWorking") => state = "FinishedWorking"]_vars

\* A OneShot worker after the tick that followed its completed cycle: the run
\* began in FinishedWorking, started nothing and left the state Available.
C18_Witness ==
    /\ pc = "update"
    /\ run_mode = OneShot(FALSE)
    /\ state = "Available"
    /\ outcome = "NotStarted"
    /\ submitted.any
    /\ fatal = "none"


\* C19: submit hands the encoder to the queue, sets the state to Working and
\* leaves the worker with a fresh command encoder: directly after a submit,
\* before any poll has found the queue empty, command_encoder is Some.  Stated
\* on the submit a run is about to make, and on the states in which the
\* submitted work is still in flight.
C19_EncoderAfterSubmit ==
    /\ (/\ Alive /\ pc = "run" /\ ready_to_execute(Self)
        /\ run_steps(Self, 1).err = "Ok" /\ command_encoder.some)
          => /\ submit(Self).state = "Working"
             /\ submit(Self).command_encoder.some
    /\ (Alive /\ state = "Working" /\ gpu_busy) => command_encoder.some


\* The panic, if any, is not one of a missing encoder: dispatch and
\* read_staging_buffers did not return EncoderIsNone, and an unwrap that failed
\* was not the one in submit (which leaves the encoder slot empty).
EncoderWasThere(w) ==
    /\ w.fatal # "EncoderIsNone"
    /\ w.fatal = "UnwrapNone" => w.command_encoder.some

\* C20: whenever a cycle begins recording, in the run of a tick or in
\* execute_now(), a command encoder exists: no run ends with EncoderIsNone or
\* with submit finding the slot empty, the run of a tick that is about to
\* start a cycle holds an encoder, and an Immediate worker holds one whenever
\* execute_now() can be called, also right after an execute_now() with no
\* tick in between, whatever the polls answered.
C20_EncoderWhenCycleBegins ==
    /\ EncoderWasThere(Self)
    /\ (Alive /\ pc = "run" /\ state # "Working" /\ run_mode # OneShot(FALSE))
          => command_encoder.some
    /\ (Alive /\ pc = "update" /\ run_mode = Immediate)
          => /\ command_encoder.some
             /\ EncoderWasThere(execute_now(Self, pipeline_cache))

\* An Immediate worker between two ticks, after an execute_now() that
\* submitted a cycle: the next execute_now() is the second with no tick between.
C20_Witness ==
    /\ pc = "update" /\ Alive
    /\ run_mode = Immediate
    /\ outcome = "ReturnedTrue"
    /\ state = "Working"
    /\ command_encoder = FreshEncoder
    /\ execute_now(Self, pipeline_cache).outcome = "ReturnedTrue"


\* C21: at most one cycle is in flight: submit is never invoked while the
\* state is Working.  Neither the run of a tick nor execute_now(), begun in
\* state Working, submits a cycle.
C21_NoSubmitWhileWorking ==
    (Alive /\ state = "Working") =>
        /\ pc = "run" => \A fin \in BOOLEAN : run_aux(Self, fin).outcome # "Submitted"
        /\ (pc = "update" /\ run_mode = Immediate)
              => execute_now(Self, pipeline_cache).outcome # "ReturnedTrue"


\* C22: the state changes only along Created or Available -> Working (by
\* submit), Working -> FinishedWorking (only in a step whose poll found all
\* submitted work completed) and FinishedWorking -> Available (at the start of
\* a run), and never returns to Created.  A run makes these moves in order
\* within one step; every other step that changes the state makes exactly the
\* move of a submit.
C22_StateTransitions ==
    [][/\ state' = "Created" => state = "Created"
       /\ TickRun =>
            /\ state = "Working" => state' \in {"Working", "FinishedWorking"}
            /\ state' = "FinishedWorking" =>
                  ~gpu_busy' /\ (state = "Working" \/ outcome' = "Submitted")
            /\ (state \in {"Created", "Available"} /\ state' # state) =>
                  outcome' = "Submitted" /\ state' \in {"Working", "FinishedWorking"}
            /\ state = "FinishedWorking" =>
                  state' = "Available" \/ outcome' = "Submitted"
       /\ (~TickRun /\ state' # state) =>
            state \in {"Created", "Available"} /\ state' = "Working"]_vars


\* C23: in OneShot mode the trigger goes from triggered to untriggered only
\* in the step that takes the state from Working to FinishedWorking (a run
\* whose poll found the submitted cycle completed).  A run that submits a
\* cycle still in flight keeps the trigger, and so does a run that abandons a
\* triggered cycle because a pipeline is not ready; a OneShot cycle that
\* completes clears it.
C23_TriggerClearedOnCompletion ==
    [][/\ (run_mode = OneShot(TRUE) /\ run_mode' # OneShot(TRUE)) =>
            /\ TickRun /\ run_mode' = OneShot(FALSE)
            /\ state' = "FinishedWorking" /\ ~gpu_busy'
            /\ state = "Working" \/ outcome' = "Submitted"
       /\ (TickRun /\ run_mode = OneShot(TRUE)) =>
            /\ outcome' = "PipelineNotReady" =>
                  run_mode' = OneShot(TRUE) /\ state' # "FinishedWorking"
            /\ state' = "Working" => run_mode' = OneShot(TRUE)
            /\ state' = "FinishedWorking" => run_mode' = OneShot(FALSE)]_vars

\* A OneShot worker after the run that abandoned its triggered cycle: the
\* pipeline was not ready, the request is still there.
C23_Witness ==
    /\ pc = "update" /\ Alive
    /\ run_mode = OneShot(TRUE)
    /\ outcome = "PipelineNotReady"
    /\ n_exec > 0


\* C24: in OneShot mode with fair ticking, pipelines that get compiled and a
\* device that finishes its work, a request made by execute() is served: the
\* worker reaches FinishedWorking, a cycle having been submitted, with the
\* trigger untriggered again.  The
\* request is taken in whatever state the worker is when execute() is called
\* (the call leaves the trigger set), and no frame ends in a fatal error.
C24_OneShotRequestServed ==
    /\ (run_mode = OneShot(TRUE)) ~>
           (state = "FinishedWorking" /\ run_mode = OneShot(FALSE) /\ submitted.any)
    /\ [][n_exec' = n_exec + 1 => run_mode' = OneShot(TRUE)]_vars
    /\ [](fatal = "none")

\* A OneShot worker whose request was served after a frame that found a
\* pipeline missing, on a device that is polled without waiting.
C24_Witness ==
    /\ state = "FinishedWorking" /\ run_mode = OneShot(FALSE)
    /\ ~wait_mode
    /\ Len(submitted.log) > Len(steps)


\* C25: after execute_now() has returned true on an Immediate worker the
\* results are ready to read: ready() is true (the state is FinishedWorking),
\* the submitted work has completed and every staging buffer is marked mapped.
C25_ExecuteNowLeavesReady ==
    (pc = "update" /\ Alive /\ run_mode = Immediate) =>
        LET w == execute_now(Self, pipeline_cache)
        IN w.outcome = "ReturnedTrue" =>
              /\ ready(w)
              /\ ~w.gpu_busy
              /\ \A n \in DOMAIN w.staging_buffers : w.staging_buffers[n].mapped


\* The last step that is a pass of shader s, 0 if there is none.
LastPassOf(s) ==
    LET found == {i \in DOMAIN steps : IsPass(steps[i]) /\ steps[i].shader_type_path = s}
    IN IF found = {} THEN 0 ELSE CHOOSE i \in found : \A j \in found : j <= i

\* C26: when several passes reference the shader S, set_dispatch_size::<S>
\* changes the workgroup size of the last of them in the declared sequence
\* and of no other step; when no step references S it fails fatally and
\* leaves the worker as it was.
C26_SetDispatchSizeLastPass ==
    Alive =>
        \A s \in Shaders, size \in Sizes :
            LET w == set_dispatch_size(Self, s, size)
            IN IF LastPassOf(s) = 0
               THEN OnlyPanicked(w)
               ELSE w.steps = [steps EXCEPT ![LastPassOf(s)].dispatch_size = size]


\* What an external cache may report: any set of the requested pipelines.
CacheReports == SUBSET Range(cached_pipeline_ids)

\* C27: the refresh of the pipelines is monotonic.  Whatever the external
\* cache reports, an entry that holds a compiled pipeline is left as it is,
\* an entry that is None becomes Some exactly when the cache reports its
\* pipeline ready, no key is added or removed, and no other field of the
\* worker changes.
C27_RefreshMonotonic ==
    \A cache \in CacheReports :
        LET w == extract_pipelines_aux(Self, cache)
        IN /\ DOMAIN w.pipelines = DOMAIN pipelines
           /\ \A s \in DOMAIN pipelines :
                 /\ pipelines[s] => w.pipelines[s]
                 /\ ~pipelines[s] =>
                       (w.pipelines[s] <=> cached_pipeline_ids[s] \in cache)
           /\ [w EXCEPT !.pipelines = pipelines] = Self

\* After a refresh that resolved one pipeline and left another unresolved.
C27_Witness ==
    /\ pc = "unmap"
    /\ \E s \in DOMAIN pipelines, t \in DOMAIN pipelines :
          /\ pipelines[s] /\ cached_pipeline_ids[s] \in pipeline_cache
          /\ ~pipelines[t] /\ cached_pipeline_ids[t] \notin pipeline_cache


\* The copies of worker w's last submitted stream are its last commands, after
\* every dispatch, one per staging buffer: from the allocation the name holds
\* in w (after the swaps of the cycle) to the staging allocation, of the
\* staging buffer's full size.
CopiesClose(w) ==
    LET cmds == w.submitted.cmds
        k == Cardinality(DOMAIN w.staging_buffers)
        n == Len(cmds)
    IN /\ n >= k
       /\ \A i \in 1..n : (cmds[i].op = "copy") <=> (i > n - k)
       /\ {[src |-> cmds[i].src, dst |-> cmds[i].dst, size |-> cmds[i].size] :
               i \in (n - k + 1)..n}
            = {[src |-> w.buffers[m].id, dst |-> w.staging_buffers[m].id,
                size |-> w.staging_buffers[m].size] : m \in DOMAIN w.staging_buffers}
       /\ \A m \in DOMAIN w.staging_buffers :
             Cardinality({i \in 1..n : cmds[i].op = "copy"
                                        /\ cmds[i].dst = w.staging_buffers[m].id}) = 1

\* C28: in every submitted cycle, of the run of a tick or of execute_now(),
\* the device-to-staging copies are recorded after all the steps and before
\* the submit, exactly one per staging buffer, each of the full size of the
\* staging buffer and from the allocation its name is assigned to after the
\* swaps of that cycle.
C28_CopiesCloseTheCycle ==
    Alive =>
        /\ pc = "run" =>
              \A fin \in BOOLEAN :
                  LET w == run_aux(Self, fin)
                  IN w.outcome = "Submitted" => CopiesClose(w)
        /\ (pc = "update" /\ run_mode = Immediate) =>
              LET w == execute_now(Self, pipeline_cache)
              IN w.outcome = "ReturnedTrue" => CopiesClose(w)

\* After the run of a tick that submitted the cycle of a declaration with a
\* Swap step and a staging buffer.
C28_Witness ==
    /\ pc = "update" /\ Alive
    /\ outcome = "Submitted"
    /\ \E st \in Range(steps) : st.kind = "Swap"
    /\ DOMAIN staging_buffers # {}
    /\ CopiesClose(Self)


\* Worker w has just been through a submitted cycle: since its submit one map
\* request was made per staging buffer, and every staging buffer is marked
\* mapped.
MappedAfterCycle(w) ==
    /\ w.maps.log = StagingOrder(w)
    /\ \A n \in DOMAIN w.staging_buffers : w.staging_buffers[n].mapped

\* C29: the map requests are made only after the submit of the cycle that
\* copied into the staging buffers, exactly one per staging buffer and
\* submitted cycle, and the mapped flag is set with the request: directly after
\* a submitted cycle every staging buffer is marked mapped, whether or not the
\* device has finished; a run that submits nothing asks for no map; and no
\* request is ever made on a buffer whose flag is already true.
C29_MapsAfterSubmit ==
    /\ ~maps.again
    /\ (Alive /\ pc = "run") =>
          \A fin \in BOOLEAN :
              LET w == run_aux(Self, fin)
              IN IF w.outcome = "Submitted" THEN MappedAfterCycle(w)
                 ELSE w.maps = maps
    /\ (Alive /\ pc = "update" /\ run_mode = Immediate) =>
          LET w == execute_now(Self, pipeline_cache)
          IN IF w.outcome = "ReturnedTrue" THEN MappedAfterCycle(w)
             ELSE w.maps = maps

\* After the run of a tick that submitted a cycle the device has not finished:
\* the staging buffers are marked mapped already.
C29_Witness ==
    /\ pc = "update" /\ Alive
    /\ outcome = "Submitted" /\ state = "Working" /\ gpu_busy
    /\ maps.log # <<>>
    /\ MappedAfterCycle(Self)


\* C30: in the unmap step of a tick, if the state is not Working (the work
\* submitted before has completed), no staging buffer is marked mapped after
\* the step, in every run mode and whatever the OneShot trigger is.
C30_UnmapWhenNotWorking ==
    [][(pc = "unmap" /\ pc' = "run" /\ state # "Working")
          => \A n \in DOMAIN staging_buffers' : ~staging_buffers'[n].mapped]_vars


\* C31: no staging buffer is unmapped while the state is Working: the unmap
\* step, run by the scheduler or inside execute_now(), leaves every mapped
\* flag as it is in that state, in every run mode.
C31_NoUnmapWhileWorking ==
    (Alive /\ state = "Working"
       /\ (pc = "unmap" \/ (pc = "update" /\ run_mode = Immediate)))
      => unmap_all_aux(Self).staging_buffers = staging_buffers


\* The names step st refers to, and whether one of them is not registered in w.
NamesOf(st) == IF IsPass(st) THEN Range(st.vars) ELSE {st.a, st.b}
NamesAbsent(w, i) == \E n \in NamesOf(w.steps[i]) : n \notin DOMAIN w.buffers

\* Step i of w goes through: its names are registered, a pass has its
\* pipeline, a swap has two different names.
StepPasses(w, i) ==
    /\ ~NamesAbsent(w, i)
    /\ IsPass(w.steps[i]) => /\ w.steps[i].shader_type_path \in DOMAIN w.pipelines
                             /\ w.pipelines[w.steps[i].shader_type_path]
    /\ ~IsPass(w.steps[i]) => w.steps[i].a # w.steps[i].b

\* C32: a ComputePass or Swap step that names a buffer absent from the
\* registry ends the run with the fatal error BufferNotFound when it is
\* reached (every step before it went through): nothing is submitted, and
\* the run is not suspended as for a missing pipeline, whether the pipeline of
\* that pass is compiled or not.
C32_AbsentBufferIsFatal ==
    \A cache \in CacheReports, fin \in BOOLEAN :
        LET w0 == extract_pipelines_aux(Self, cache)
            w == run_aux(w0, fin)
        IN \A i \in DOMAIN steps :
              (NamesAbsent(w0, i) /\ \A j \in 1..(i - 1) : StepPasses(w0, j))
                => /\ w.fatal = "BufferNotFound"
                   /\ w.outcome = "Panic"
                   /\ w.submitted = submitted
                   /\ w.state = state

\* A declaration whose second step is a pass of an unregistered buffer B,
\* behind a pass that goes through once its pipeline is compiled.
C32_Witness ==
    /\ pc = "build"
    /\ Len(steps) = 2
    /\ DOMAIN buffers = {"A"}
    /\ IsPass(steps[1]) /\ steps[1].vars = <<"A">>
    /\ IsPass(steps[2]) /\ steps[2].vars = <<"A", "B">>
    /\ steps[1].shader_type_path # steps[2].shader_type_path
    /\ run_aux(Self, TRUE).outcome = "PipelineNotReady"
    /\ run_aux(extract_pipelines_aux(Self, {cached_pipeline_ids[steps[1].shader_type_path]}),
               TRUE).fatal = "BufferNotFound"


\* A step of the frame's systems (extract_pipelines, unmap_all, run).
TickStep == pc # "update" /\ pc' # pc

\* C33: with the blocking wait policy (wait_mode true) the cycle a Continuous
\* or OneShot worker submits in a tick has reached FinishedWorking at the end
\* of that run.  With wait_mode false the worker may be Working when a tick
\* begins; the systems of that tick then start no cycle and change no buffer,
\* no step and no mapped flag, and the state leaves Working only for
\* FinishedWorking, in a run whose poll found the device done.
C33_WaitPolicy ==
    [][/\ (TickRun /\ wait_mode /\ outcome' = "Submitted") =>
             state' = "FinishedWorking" /\ ~gpu_busy'
       /\ (TickStep /\ ~wait_mode /\ run_mode.mode # "Immediate" /\ state = "Working") =>
             /\ buffers' = buffers /\ steps' = steps
             /\ staging_buffers' = staging_buffers
             /\ submitted' = submitted /\ command_encoder'.cmds = <<>>
             /\ cycle_log' = cycle_log
             /\ TickRun => outcome' = "NotStarted"
             /\ state' \in {"Working", "FinishedWorking"}
             /\ state' = "FinishedWorking" => (TickRun /\ ~gpu_busy')
             /\ (TickRun /\ gpu_busy') => state' = "Working"]_vars

\* A worker that does not wait, still Working after a whole tick that began
\* in Working: the device has not finished.
C33_Witness ==
    /\ pc = "update" /\ Alive
    /\ ~wait_mode /\ run_mode.mode # "Immediate"
    /\ state = "Working" /\ gpu_busy
    /\ outcome = "NotStarted"


\* C34: two workers on one device run independently: what the first worker
\* does is decided by its own work alone.  In the run of a tick in which it
\* has work submitted (it began Working, or submits in this run) it reaches
\* FinishedWorking exactly if its own work is done when it polls, whatever
\* the second worker has declared, requested or submitted.
C34_WorkersIndependent ==
    [][(TickRun /\ fatal' = "none" /\ (state = "Working" \/ outcome' = "Submitted"))
          => (state' = "FinishedWorking" <=> ~gpu_busy')]_vars


\* The registry as step i of a cycle finds it: bufs after the Swap steps
\* before i, in the declared order.
RECURSIVE AssignedAt(_, _, _)
AssignedAt(bufs, st, i) ==
    IF i <= 1 THEN bufs
    ELSE LET before == AssignedAt(bufs, st, i - 1)
         IN IF IsPass(st[i - 1]) THEN before
            ELSE exchange(before, st[i - 1].a, st[i - 1].b)

\* The dispatches of a command sequence and the ComputePass steps, in order.
DispatchesOf(cmds) == SelectSeq(cmds, LAMBDA c : c.op = "dispatch")
PassIndices(st) == SelectSeq([i \in 1..MaxSteps |-> i],
                             LAMBDA i : i <= Len(st) /\ IsPass(st[i]))

\* C35: in a cycle submitted from an empty encoder, the bind group of every
\* ComputePass has exactly one entry per element of vars, entry j is the
\* allocation assigned to vars[j] at that point of the cycle (after the Swap
\* steps before the pass), and the dispatch recorded for the pass uses the
\* pass's workgroup size and pipeline.
C35_BindGroupFollowsVars ==
    [][(TickRun /\ outcome' = "Submitted" /\ command_encoder.cmds = <<>>)
         => LET ds == DispatchesOf(submitted'.cmds)
                ps == PassIndices(steps)
            IN /\ Len(ds) = Len(ps)
               /\ \A k \in DOMAIN ps :
                    LET pass == steps[ps[k]]
                        bufs == AssignedAt(buffers, steps, ps[k])
                    IN /\ ds[k].pipeline = pass.shader_type_path
                       /\ ds[k].size = pass.dispatch_size
                       /\ DOMAIN ds[k].entries = DOMAIN pass.vars
                       /\ \A j \in DOMAIN pass.vars :
                            ds[k].entries[j] = bufs[pass.vars[j]].id]_vars

\* A cycle has been submitted whose pass came after a Swap of a buffer it
\* binds.
C35_Witness ==
    /\ outcome = "Submitted" /\ pc = "update"
    /\ \E i, j \in DOMAIN steps :
          /\ i < j /\ ~IsPass(steps[i]) /\ IsPass(steps[j])
          /\ steps[i].a # steps[i].b
          /\ steps[i].a \in Range(steps[j].vars)
    /\ Len(DispatchesOf(submitted.cmds)) >= 1


\* C36: in OneShot mode with the trigger unset, the unmap step and the run of
\* a tick change nothing except that the run demotes FinishedWorking to
\* Available: no step is processed, nothing is recorded or submitted, the
\* device is not polled, no staging buffer is unmapped and the encoder is
\* untouched.
C36_UntriggeredTickIsIdle ==
    [][(TickStep /\ run_mode = OneShot(FALSE) /\ fatal = "none")
         => /\ state' = IF pc = "run" /\ state = "FinishedWorking"
                        THEN "Available" ELSE state
            /\ UNCHANGED <<run_mode, wait_mode, cached_pipeline_ids, pipelines,
                           buffers, staging_buffers, steps, command_encoder,
                           gpu_busy, next_id, destroyed, queued, fatal,
                           cycle_log, submitted, n_submits, copy_mapped, maps>>
            /\ pc = "run" => outcome' = "NotStarted"]_vars

\* An untriggered run has demoted the worker after a completed cycle, and the
\* results of that cycle are still mapped.
C36_Witness ==
    /\ pc = "update" /\ run_mode = OneShot(FALSE)
    /\ state = "Available" /\ outcome = "NotStarted"
    /\ submitted.any /\ ~gpu_busy
    /\ DOMAIN staging_buffers # {}
    /\ \A n \in DOMAIN staging_buffers : staging_buffers[n].mapped


\* C37: whenever a cycle records the device-to-staging copy for a name, the
\* size of the copy (the staging buffer's size) equals the size of the device
\* allocation assigned to that name, also after runtime add_rw_storage and
\* add_staging calls that replace a buffer with one of a different size.
C37_CopySizeMatchesBuffer ==
    [][(TickRun /\ outcome' = "Submitted")
         => \A k \in DOMAIN submitted'.cmds :
               LET c == submitted'.cmds[k]
               IN c.op = "copy"
                    => \E n \in DOMAIN staging_buffers' :
                          /\ staging_buffers'[n].id = c.dst
                          /\ buffers'[n].id = c.src
                          /\ c.size = buffers'[n].size]_vars


\* C38: every name that has a staging buffer also has a device buffer in the
\* registry, and the shader of every ComputePass step has an entry (possibly
\* None) in the pipeline table; so read_staging_buffers does not fail with
\* BufferNotFound and dispatch does not fail with PipelinesEmpty.
C38_RegistriesCoverTheSteps ==
    /\ DOMAIN staging_buffers \subseteq DOMAIN buffers
    /\ \A i \in DOMAIN steps :
          IsPass(steps[i]) =>
             /\ steps[i].shader_type_path \in DOMAIN pipelines
             /\ dispatch(Self, i).err # "PipelinesEmpty"
    /\ read_staging_buffers(Self).err # "BufferNotFound"

\* After a runtime add_staging, a refresh that found a pipeline and a cycle
\* with a Swap step, the copies and the passes have been recorded and
\* submitted.
C38_Witness ==
    /\ submitted.any
    /\ \E k \in DOMAIN submitted.cmds : submitted.cmds[k].op = "copy"
    /\ \E k \in DOMAIN submitted.cmds : submitted.cmds[k].op = "dispatch"
    /\ \E i \in DOMAIN steps : ~IsPass(steps[i])
    /\ \E n \in DOMAIN staging_buffers : staging_buffers[n].size = ByteSize("new")

====
